---- MODULE Spec2Model ----
(***************************************************************************)
(* FileReaderTool._run of src/FileCleaner.py (lines 29-56) as a state      *)
(* machine over a small POSIX-like filesystem.                             *)
(*                                                                         *)
(* Python str values are sequences of code points (integers).  The two     *)
(* string literals of the code are spelled out in ASCII.  str(ex) of an    *)
(* exception is abbreviated to a short sequence of integers that keeps     *)
(* what the real message depends on: the errno and the path of an OSError, *)
(* the offending byte, its position and the reason of a decoding error.    *)
(***************************************************************************)
EXTENDS Integers, Sequences, FiniteSets, TLC

\* Number of entry names a directory can hold.
NumNames == 2

\* How many times the environment may change the directory in one behaviour.
MaxEnv == 1

Names == 1..NumNames

\* The independent callers of the tool (the script builds three agents, each
\* with its own FileReaderTool; two are enough for every pair to interleave).
Callers == {1, 2}

\* ------------------------------------------------------------------------
\* Strings of the code

\* "Provided path is not a directory."
NotDirMsg ==
    <<80,114,111,118,105,100,101,100,32,112,97,116,104,32,105,115,32,110,
      111,116,32,97,32,100,105,114,101,99,116,111,114,121,46>>

\* "Error reading file: "
ErrPrefix ==
    <<69,114,114,111,114,32,114,101,97,100,105,110,103,32,102,105,108,101,58,32>>

\* ------------------------------------------------------------------------
\* Exceptions.  msg is str(ex).

NoExc == [type |-> "none", msg |-> <<>>]

\* OSError subclasses: "[Errno n] ...: 'path'"
OsError(type, errno, path) == [type |-> type, msg |-> <<errno>> \o path]

\* "'utf-8' codec can't decode byte 0x.. in position p: reason"
\* reason: 1 invalid start byte, 2 invalid continuation byte,
\*         3 unexpected end of data
DecodeError(byte, pos, reason) ==
    [type |-> "UnicodeDecodeError", msg |-> <<byte, pos, reason>>]

\* ------------------------------------------------------------------------
\* open(..., 'r', encoding='utf-8').read(): strict UTF-8 decoding followed by
\* universal-newline translation (newline=None is the default of open).

IsCont(b) == b >= 128 /\ b <= 191

\* Number of continuation bytes a start byte asks for; -1: not a start byte.
Need(b0) ==
    IF b0 < 128 THEN 0
    ELSE IF b0 >= 194 /\ b0 <= 223 THEN 1
    ELSE IF b0 >= 224 /\ b0 <= 239 THEN 2
    ELSE IF b0 >= 240 /\ b0 <= 244 THEN 3
    ELSE -1

\* The range of the second byte (overlong forms, surrogates, > U+10FFFF).
SecondOk(b0, b1) ==
    IF b0 = 224 THEN b1 >= 160 /\ b1 <= 191
    ELSE IF b0 = 237 THEN b1 >= 128 /\ b1 <= 159
    ELSE IF b0 = 240 THEN b1 >= 144 /\ b1 <= 191
    ELSE IF b0 = 244 THEN b1 >= 128 /\ b1 <= 143
    ELSE IsCont(b1)

\* Payload bits of a start byte.
LeadBits(b0) ==
    IF b0 < 128 THEN b0
    ELSE IF b0 <= 223 THEN b0 - 192
    ELSE IF b0 <= 239 THEN b0 - 224
    ELSE b0 - 240

RECURSIVE CodePoint(_, _, _, _)
CodePoint(b, i, n, acc) ==
    IF n = 0 THEN acc ELSE CodePoint(b, i + 1, n - 1, acc * 64 + (b[i] - 128))

\* First index in i+1..i+n that is missing or no valid continuation; 0 if none.
RECURSIVE BadAt(_, _, _, _)
BadAt(b, i, k, n) ==
    IF k > n THEN 0
    ELSE IF i + k > Len(b) THEN i + k
    ELSE IF (IF k = 1 THEN SecondOk(b[i], b[i + 1]) ELSE IsCont(b[i + k]))
         THEN BadAt(b, i, k + 1, n)
    ELSE i + k

\* Decoding from 1-based index i; pos in the error is 0-based, as in Python.
RECURSIVE DecodeFrom(_, _)
DecodeFrom(b, i) ==
    IF i > Len(b) THEN [ok |-> TRUE, chars |-> <<>>, exc |-> NoExc]
    ELSE LET n == Need(b[i]) IN
         IF n < 0
         THEN [ok |-> FALSE, chars |-> <<>>, exc |-> DecodeError(b[i], i - 1, 1)]
         ELSE LET bad == BadAt(b, i, 1, n) IN
              IF bad # 0 /\ bad > Len(b)
              THEN [ok |-> FALSE, chars |-> <<>>, exc |-> DecodeError(b[i], i - 1, 3)]
              ELSE IF bad # 0
              THEN [ok |-> FALSE, chars |-> <<>>, exc |-> DecodeError(b[i], i - 1, 2)]
              ELSE LET rest == DecodeFrom(b, i + n + 1) IN
                   IF rest.ok
                   THEN [ok |-> TRUE,
                         chars |-> <<CodePoint(b, i + 1, n, LeadBits(b[i]))>> \o rest.chars,
                         exc |-> NoExc]
                   ELSE rest

Utf8Decode(b) == DecodeFrom(b, 1)

\* "\r\n" and a lone "\r" both become "\n".
RECURSIVE TranslateNewlines(_)
TranslateNewlines(s) ==
    IF s = <<>> THEN <<>>
    ELSE IF s[1] = 13
    THEN IF Len(s) > 1 /\ s[2] = 10
         THEN <<10>> \o TranslateNewlines(SubSeq(s, 3, Len(s)))
         ELSE <<10>> \o TranslateNewlines(Tail(s))
    ELSE <<s[1]>> \o TranslateNewlines(Tail(s))

\* A mutant of ReadText: binary-exact text, no newline translation.
ReadTextExact(data) ==
    LET d == Utf8Decode(data) IN
    IF d.ok THEN [ok |-> TRUE, chars |-> d.chars, exc |-> NoExc] ELSE d

\* f.read() on a handle whose file holds `data`.
ReadText(data) ==
    LET d == Utf8Decode(data) IN
    IF d.ok THEN [ok |-> TRUE, chars |-> TranslateNewlines(d.chars), exc |-> NoExc]
    ELSE d

\* ------------------------------------------------------------------------
\* The filesystem

\* A directory entry.  kind: "none" (no such entry), "file", "dir", "link".
\* mode of a file: "ok", "noperm" (open fails with EACCES), "ioerr" (read
\* fails with EIO).  to: what a symbolic link resolves to.
NoNode == [kind |-> "none", data |-> <<>>, mode |-> "ok", to |-> "none"]
File(data, mode) == [kind |-> "file", data |-> data, mode |-> mode, to |-> "none"]
Dir == [kind |-> "dir", data |-> <<>>, mode |-> "ok", to |-> "none"]
Link(to) == [kind |-> "link", data |-> <<>>, mode |-> "ok", to |-> to]

\* File contents the model draws from: empty, "A", "A\r\nB", "\r", the two
\* bytes of U+00E9, a start byte cut short, a start byte followed by "A", and
\* a continuation byte with no start byte.
SampleData ==
    { <<>>, <<65>>, <<65, 13, 10, 66>>, <<13>>, <<195, 169>>,
      <<195>>, <<195, 65>>, <<169>> }

\* What a symbolic link to a file points at (a file outside the directory).
TargetFile == File(<<104, 13, 10>>, "ok")

\* Every subdirectory (and the directory a link points at) holds one file
\* under the name 1.
SubEntries == [n \in Names |-> IF n = 1 THEN File(<<115, 117, 98>>, "ok") ELSE NoNode]

Nodes ==
    {NoNode, Dir, File(<<65>>, "noperm"), File(<<65>>, "ioerr"),
     Link("file"), Link("dir"), Link("none")}
    \cup {File(d, "ok") : d \in SampleData}

\* The smaller sample of entries used where a second caller multiplies the
\* states, and the one used where the environment does.
FewNodes == {NoNode, Dir, Link("file"), File(<<65>>, "ok"), File(<<195>>, "ok")}
EnvNodes == FewNodes \cup {File(<<65>>, "noperm"), File(<<65>>, "ioerr")}

\* Paths are sequences of names below the directory under test: <<>> is the
\* directory itself, <<n>> its entry n, <<n, m>> entry m of subdirectory n.
Args == {<<>>, <<1>>}

VARIABLES
    dirMode,        \* the directory under test: "ok", "noperm" (not listable), "gone"
    entries,        \* its entries: Names -> node
    envLeft,        \* how many more times the environment may interfere
    arg,            \* folder_path of each caller
    pc,             \* position of each caller in _run
    todo,           \* what is left of the os.listdir() list being iterated
    file_contents,  \* the local dict of each call
    handles,        \* the file objects each call has open
    exc,            \* the exception in flight in each call
    ret,            \* what the latest completed call gave its caller
    last,           \* what the call before that gave
    listed,         \* history: did this call enumerate the directory
    opened,         \* history: the paths this call tried to open
    tested,         \* history: the names for which isfile() was true in this call
    failed          \* history: name -> exception its open or read raised in this call

fsVars == <<dirMode, entries>>
vars == <<dirMode, entries, envLeft, arg, pc, todo, file_contents, handles, exc,
          ret, last, listed, opened, tested, failed>>

\* stat() without following a final symbolic link.
Node(p) ==
    IF Len(p) = 0
    THEN IF dirMode = "gone" THEN NoNode ELSE [Dir EXCEPT !.mode = dirMode]
    ELSE IF dirMode = "gone" THEN NoNode
    ELSE IF Len(p) = 1 THEN entries[p[1]]
    ELSE LET parent == entries[p[1]] IN
         IF parent.kind = "dir" \/ (parent.kind = "link" /\ parent.to = "dir")
         THEN SubEntries[p[2]]
         ELSE NoNode

\* stat() following symbolic links.
Stat(p) ==
    LET n == Node(p) IN
    IF n.kind # "link" THEN n
    ELSE IF n.to = "file" THEN TargetFile
    ELSE IF n.to = "dir" THEN Dir
    ELSE NoNode

\* A mutant of IsDir: os.path.exists.
PathExists(p) == Stat(p).kind # "none"

\* os.path.isdir
IsDir(p) == Stat(p).kind = "dir"

\* A mutant of IsFile: os.path.exists.
IsFileOrDir(p) == Stat(p).kind # "none"

\* A mutant of IsFile: a test that does not follow symbolic links.
IsFileNoFollow(p) == Node(p).kind = "file"

\* os.path.isfile
IsFile(p) == Stat(p).kind = "file"

\* os.path.join(folder_path, filename)
Join(p, name) == Append(p, name)

\* The names os.listdir(p) returns, in some order.
Children(p) == {n \in Names : Node(Join(p, n)).kind # "none"}

\* The exception of os.listdir(p), or NoExc.
ListDirError(p) ==
    LET n == Stat(p) IN
    IF n.kind = "none" THEN OsError("FileNotFoundError", 2, p)
    ELSE IF n.kind # "dir" THEN OsError("NotADirectoryError", 20, p)
    ELSE IF n.mode = "noperm" THEN OsError("PermissionError", 13, p)
    ELSE NoExc

\* The exception of open(p, 'r'), or NoExc.
OpenError(p) ==
    LET n == Stat(p) IN
    IF n.kind = "none" THEN OsError("FileNotFoundError", 2, p)
    ELSE IF n.kind = "dir" THEN OsError("IsADirectoryError", 21, p)
    ELSE IF n.mode = "noperm" THEN OsError("PermissionError", 13, p)
    ELSE NoExc

Perms(S) == {s \in [1..Cardinality(S) -> S] : \A i, j \in 1..Cardinality(S) : s[i] = s[j] => i = j}

\* ------------------------------------------------------------------------
\* What a call gives its caller: nothing yet, a str, a dict, or an exception.

NoRet == [kind |-> "none", str |-> <<>>, val |-> <<>>, exc |-> NoExc]
RetStr(s) == [kind |-> "str", str |-> s, val |-> <<>>, exc |-> NoExc]
RetDict(d) == [kind |-> "dict", str |-> <<>>, val |-> d, exc |-> NoExc]
Raised(e) == [kind |-> "raise", str |-> <<>>, val |-> <<>>, exc |-> e]

\* The file the loop body is working on.
filename(c) == Head(todo[c])
file_path(c) == Join(arg[c], filename(c))

\* A mutant of Fresh: the dict survives from the previous call.
Stale(c) == file_contents[c]

\* file_contents = {}
Fresh(c) == <<>>

\* A mutant of Put: one dict shared by every caller.
PutShared(c, k, v) == [d \in Callers |-> (k :> v) @@ file_contents[d]]

\* file_contents[k] = v
Put(c, k, v) == [file_contents EXCEPT ![c] = (k :> v) @@ @]

\* A mutant of Release: the file object is never closed.
NoRelease(c, h) == handles

\* f.__exit__(): close the file object h
Release(c, h) == [handles EXCEPT ![c] = @ \ {h}]

\* The file object open(file_path) gives: it stays bound to the file it opened.
Handle(p) == [path |-> p, data |-> Stat(p).data, mode |-> Stat(p).mode]

\* ------------------------------------------------------------------------
\* The steps of FileReaderTool._run for caller c

\* _run(folder_path) is entered.
Call(c) ==
    /\ pc[c] = "idle"
    /\ pc' = [pc EXCEPT ![c] = "check"]
    /\ last' = [last EXCEPT ![c] = ret[c]]
    /\ ret' = [ret EXCEPT ![c] = NoRet]
    /\ listed' = [listed EXCEPT ![c] = FALSE]
    /\ opened' = [opened EXCEPT ![c] = {}]
    /\ tested' = [tested EXCEPT ![c] = {}]
    /\ failed' = [failed EXCEPT ![c] = <<>>]
    /\ UNCHANGED <<dirMode, entries, envLeft, arg, todo, file_contents, handles, exc>>

\* if not os.path.isdir(folder_path): return "..."; file_contents = {}
CheckDir(c) ==
    /\ pc[c] = "check"
    /\ IF ~IsDir(arg[c])
       THEN /\ ret' = [ret EXCEPT ![c] = RetStr(NotDirMsg)]
            /\ pc' = [pc EXCEPT ![c] = "idle"]
            /\ UNCHANGED file_contents
       ELSE /\ file_contents' = [file_contents EXCEPT ![c] = Fresh(c)]
            /\ pc' = [pc EXCEPT ![c] = "listdir"]
            /\ UNCHANGED ret
    /\ UNCHANGED <<dirMode, entries, envLeft, arg, todo, handles, exc, last,
                   listed, opened, tested, failed>>

\* os.listdir(folder_path): outside any try, so its exception leaves _run.
ListDir(c) ==
    /\ pc[c] = "listdir"
    /\ LET e == ListDirError(arg[c]) IN
       IF e # NoExc
       THEN /\ ret' = [ret EXCEPT ![c] = Raised(e)]
            /\ pc' = [pc EXCEPT ![c] = "idle"]
            /\ UNCHANGED <<todo, listed>>
       ELSE /\ \E order \in Perms(Children(arg[c])) :
                 todo' = [todo EXCEPT ![c] = order]
            /\ listed' = [listed EXCEPT ![c] = TRUE]
            /\ pc' = [pc EXCEPT ![c] = "loop"]
            /\ UNCHANGED ret
    /\ UNCHANGED <<dirMode, entries, envLeft, arg, file_contents, handles, exc,
                   last, opened, tested, failed>>

\* for filename in ...: file_path = join(...); if os.path.isfile(file_path):
NextEntry(c) ==
    /\ pc[c] = "loop"
    /\ todo[c] # <<>>
    /\ IF IsFile(file_path(c))
       THEN /\ pc' = [pc EXCEPT ![c] = "open"]
            /\ tested' = [tested EXCEPT ![c] = @ \cup {filename(c)}]
            /\ UNCHANGED todo
       ELSE /\ todo' = [todo EXCEPT ![c] = Tail(@)]
            /\ UNCHANGED <<pc, tested>>
    /\ UNCHANGED <<dirMode, entries, envLeft, arg, file_contents, handles, exc,
                   ret, last, listed, opened, failed>>

\* open(file_path, 'r', encoding='utf-8')
Open(c) ==
    /\ pc[c] = "open"
    /\ opened' = [opened EXCEPT ![c] = @ \cup {file_path(c)}]
    /\ LET e == OpenError(file_path(c)) IN
       IF e # NoExc
       THEN /\ exc' = [exc EXCEPT ![c] = e]
            /\ failed' = [failed EXCEPT ![c] = (filename(c) :> e) @@ @]
            /\ pc' = [pc EXCEPT ![c] = "except"]
            /\ UNCHANGED handles
       ELSE /\ handles' = [handles EXCEPT ![c] = @ \cup {Handle(file_path(c))}]
            /\ pc' = [pc EXCEPT ![c] = "read"]
            /\ UNCHANGED <<exc, failed>>
    /\ UNCHANGED <<dirMode, entries, envLeft, arg, todo, file_contents, ret, last,
                   listed, tested>>

\* file_contents[filename] = f.read()
Read(c) ==
    /\ pc[c] = "read"
    /\ LET h == CHOOSE x \in handles[c] : x.path = file_path(c)
           r == ReadText(h.data)
           e == IF h.mode = "ioerr" THEN [type |-> "OSError", msg |-> <<5>>] ELSE r.exc
       IN  IF e # NoExc
           THEN /\ exc' = [exc EXCEPT ![c] = e]
                /\ failed' = [failed EXCEPT ![c] = (filename(c) :> e) @@ @]
                /\ UNCHANGED file_contents
           ELSE /\ file_contents' = Put(c, filename(c), r.chars)
                /\ UNCHANGED <<exc, failed>>
    /\ pc' = [pc EXCEPT ![c] = "exit"]
    /\ UNCHANGED <<dirMode, entries, envLeft, arg, todo, handles, ret, last,
                   listed, opened, tested>>

\* The end of the with block, reached normally or by an exception.
Exit(c) ==
    /\ pc[c] = "exit"
    /\ handles' = Release(c, CHOOSE x \in handles[c] : x.path = file_path(c))
    /\ IF exc[c] # NoExc
       THEN /\ pc' = [pc EXCEPT ![c] = "except"]
            /\ UNCHANGED todo
       ELSE /\ pc' = [pc EXCEPT ![c] = "loop"]
            /\ todo' = [todo EXCEPT ![c] = Tail(@)]
    /\ UNCHANGED <<dirMode, entries, envLeft, arg, file_contents, exc, ret, last,
                   listed, opened, tested, failed>>

\* A mutant of Except: the handler lets the exception leave _run.
ExceptAbort(c) ==
    /\ pc[c] = "except"
    /\ ret' = [ret EXCEPT ![c] = Raised(exc[c])]
    /\ exc' = [exc EXCEPT ![c] = NoExc]
    /\ pc' = [pc EXCEPT ![c] = "idle"]
    /\ UNCHANGED <<dirMode, entries, envLeft, arg, todo, file_contents, handles,
                   last, listed, opened, tested, failed>>

\* A mutant of Except: the handler also deletes the file it could not read.
ExceptUnlink(c) ==
    /\ pc[c] = "except"
    /\ file_contents' = Put(c, filename(c), ErrPrefix \o exc[c].msg)
    /\ exc' = [exc EXCEPT ![c] = NoExc]
    /\ todo' = [todo EXCEPT ![c] = Tail(@)]
    /\ pc' = [pc EXCEPT ![c] = "loop"]
    /\ entries' = IF Len(arg[c]) = 0
                  THEN [entries EXCEPT ![filename(c)] = NoNode]
                  ELSE entries
    /\ UNCHANGED <<dirMode, envLeft, arg, handles, ret, last, listed, opened,
                   tested, failed>>

\* except Exception as ex: file_contents[filename] = f"Error reading file: {str(ex)}"
Except(c) ==
    /\ pc[c] = "except"
    /\ file_contents' = Put(c, filename(c), ErrPrefix \o exc[c].msg)
    /\ exc' = [exc EXCEPT ![c] = NoExc]
    /\ todo' = [todo EXCEPT ![c] = Tail(@)]
    /\ pc' = [pc EXCEPT ![c] = "loop"]
    /\ UNCHANGED <<dirMode, entries, envLeft, arg, handles, ret, last, listed,
                   opened, tested, failed>>

\* return file_contents
Return(c) ==
    /\ pc[c] = "loop"
    /\ todo[c] = <<>>
    /\ ret' = [ret EXCEPT ![c] = RetDict(file_contents[c])]
    /\ pc' = [pc EXCEPT ![c] = "idle"]
    /\ UNCHANGED <<dirMode, entries, envLeft, arg, todo, file_contents, handles,
                   exc, last, listed, opened, tested, failed>>

Run(c) ==
    \/ Call(c)
    \/ CheckDir(c)
    \/ ListDir(c)
    \/ NextEntry(c)
    \/ Open(c)
    \/ Read(c)
    \/ Exit(c)
    \/ Except(c)
    \/ Return(c)

\* ------------------------------------------------------------------------
\* The environment: other processes that change the directory under a call.

callerVars == <<arg, pc, todo, file_contents, handles, exc, ret, last, listed,
                opened, tested, failed>>

\* rm / rm -r of one entry
EnvUnlink ==
    /\ envLeft > 0
    /\ dirMode # "gone"
    /\ \E n \in Names :
         /\ entries[n].kind # "none"
         /\ entries' = [entries EXCEPT ![n] = NoNode]
    /\ envLeft' = envLeft - 1
    /\ UNCHANGED dirMode
    /\ UNCHANGED callerVars

\* rm -r of the directory itself
EnvRemoveDir ==
    /\ envLeft > 0
    /\ dirMode # "gone"
    /\ dirMode' = "gone"
    /\ entries' = [n \in Names |-> NoNode]
    /\ envLeft' = envLeft - 1
    /\ UNCHANGED callerVars

\* chmod a-r of the directory itself
EnvChmodDir ==
    /\ envLeft > 0
    /\ dirMode = "ok"
    /\ dirMode' = "noperm"
    /\ envLeft' = envLeft - 1
    /\ UNCHANGED entries
    /\ UNCHANGED callerVars

\* ------------------------------------------------------------------------
\* Specifications

InitFs(nodeSet) ==
    \/ dirMode = "ok" /\ entries \in [Names -> nodeSet]
    \/ dirMode = "noperm" /\ entries \in [Names -> {NoNode, File(<<65>>, "ok")}]
    \/ dirMode = "gone" /\ entries = [n \in Names |-> NoNode]

InitCallers ==
    /\ arg \in [Callers -> Args]
    /\ pc = [c \in Callers |-> "idle"]
    /\ todo = [c \in Callers |-> <<>>]
    /\ file_contents = [c \in Callers |-> <<>>]
    /\ handles = [c \in Callers |-> {}]
    /\ exc = [c \in Callers |-> NoExc]
    /\ ret = [c \in Callers |-> NoRet]
    /\ last = [c \in Callers |-> NoRet]
    /\ listed = [c \in Callers |-> FALSE]
    /\ opened = [c \in Callers |-> {}]
    /\ tested = [c \in Callers |-> {}]
    /\ failed = [c \in Callers |-> <<>>]

\* One caller, calling again and again on a directory nobody else touches.
Init ==
    /\ InitFs(Nodes)
    /\ envLeft = 0
    /\ InitCallers
    /\ arg[2] = <<>>

Next == Run(1)

Spec == Init /\ [][Next]_vars

\* One caller, with an environment that changes the directory under it.
InitEnv ==
    /\ InitFs(EnvNodes)
    /\ envLeft = MaxEnv
    /\ InitCallers
    /\ arg[2] = <<>>

NextEnv ==
    \/ Run(1)
    \/ EnvUnlink
    \/ EnvRemoveDir
    \/ EnvChmodDir

SpecEnv == InitEnv /\ [][NextEnv]_vars

\* Two callers whose steps interleave, on a directory nobody changes.
InitConc ==
    /\ InitFs(FewNodes)
    /\ envLeft = 0
    /\ InitCallers

NextConc == \E c \in Callers : Run(c)

SpecConc == InitConc /\ [][NextConc]_vars

\* ------------------------------------------------------------------------
\* Properties

\* Caller c holds the result of a completed call.
Done(c) == pc[c] = "idle" /\ ret[c].kind # "none"

\* The text a readable file with these bytes reads as.
TextOf(data) == TranslateNewlines(Utf8Decode(data).chars)

\* The entries of directory p are all regular files holding valid UTF-8.
AllValidFiles(p) ==
    \A n \in Children(p) :
        /\ Node(Join(p, n)).kind = "file"
        /\ Utf8Decode(Node(Join(p, n)).data).ok

AllReadable(p) == \A n \in Children(p) : Node(Join(p, n)).mode = "ok"

\* C1: a call on a path that is no existing directory (nothing there, or a
\* regular file) returns exactly "Provided path is not a directory.", having
\* enumerated no directory and opened no file.
C1_NotADirectory ==
    \A c \in Callers :
        (Done(c) /\ Stat(arg[c]).kind # "dir") =>
            /\ ret[c] = RetStr(NotDirMsg)
            /\ ~listed[c]
            /\ opened[c] = {}

C1_Witness ==
    \E c \in Callers :
        /\ Done(c)
        /\ Stat(arg[c]).kind = "file"
        /\ ret[c].kind = "str"
        /\ ret[c].str = NotDirMsg

\* C2 as stated (restricted to listable directories of readable files, where
\* it should hold if it holds at all): the keys are the filenames and every
\* value is the file's exact content, i.e. its bytes decoded as UTF-8.
C2_ExactContent ==
    \A c \in Callers :
        (/\ Done(c)
         /\ Stat(arg[c]).kind = "dir"
         /\ Stat(arg[c]).mode = "ok"
         /\ AllValidFiles(arg[c])
         /\ AllReadable(arg[c])) =>
            /\ ret[c].kind = "dict"
            /\ DOMAIN ret[c].val = Children(arg[c])
            /\ \A n \in Children(arg[c]) :
                 ret[c].val[n] = Utf8Decode(Node(Join(arg[c], n)).data).chars

\* C2 amended: for a directory whose entries are all readable regular files
\* of valid UTF-8 (the empty directory included), the keys are the filenames
\* and every value is the file's content decoded as UTF-8 with each "\r\n"
\* and each lone "\r" turned into "\n"; when the directory cannot be listed,
\* the call ends with the listing's PermissionError instead of a mapping.
C2_TranslatedContent ==
    \A c \in Callers :
        (/\ Done(c)
         /\ Stat(arg[c]).kind = "dir"
         /\ AllValidFiles(arg[c])
         /\ AllReadable(arg[c])) =>
            IF Stat(arg[c]).mode = "ok"
            THEN /\ ret[c].kind = "dict"
                 /\ DOMAIN ret[c].val = Children(arg[c])
                 /\ \A n \in Children(arg[c]) :
                      ret[c].val[n] = TextOf(Node(Join(arg[c], n)).data)
            ELSE ret[c] = Raised(OsError("PermissionError", 13, arg[c]))

C2_Witness ==
    \E c \in Callers :
        /\ Done(c)
        /\ arg[c] = <<>>
        /\ dirMode = "ok"
        /\ AllValidFiles(<<>>)
        /\ AllReadable(<<>>)
        /\ Children(<<>>) = Names
        /\ entries[1].data = <<65, 13, 10, 66>>
        /\ entries[2].data = <<195, 169>>
        /\ ret[c].kind = "dict"
        /\ ret[c].val[1] = <<65, 10, 66>>
        /\ ret[c].val[2] = <<233>>

\* C3 as stated: no call ends with an exception reaching the caller.
C3_NeverRaises == \A c \in Callers : Done(c) => ret[c].kind # "raise"

\* C4: when the open or the read of a regular-file entry fails, the mapping
\* holds "Error reading file: " followed by str(ex) under that filename, and
\* the loop goes on: once the directory has been listed the call returns a
\* mapping, with a key for every entry that passed the is-a-file test, each
\* with its own text or its own error string.
C4_PerFileFailure ==
    \A c \in Callers :
        (Done(c) /\ listed[c]) =>
            /\ ret[c].kind = "dict"
            /\ DOMAIN ret[c].val = tested[c]
            /\ \A n \in DOMAIN failed[c] :
                 ret[c].val[n] = ErrPrefix \o failed[c][n].msg
            /\ \A n \in tested[c] \ DOMAIN failed[c] :
                 Stat(Join(arg[c], n)).kind = "file" =>
                    ret[c].val[n] = TextOf(Stat(Join(arg[c], n)).data)

\* The first entry of the enumeration was removed after its is-a-file test,
\* a later one failed to decode, and both are in the mapping.
C4_Witness ==
    \E c \in Callers :
        /\ Done(c)
        /\ ret[c].kind = "dict"
        /\ \E n, m \in DOMAIN failed[c] :
             /\ failed[c][n].type = "FileNotFoundError"
             /\ failed[c][m].type = "UnicodeDecodeError"
             /\ ret[c].val[n] = ErrPrefix \o <<2, n>>
             /\ ret[c].val[m] = ErrPrefix \o <<195, 0, 3>>

\* C5 as stated: no symbolic link is a key of the mapping, and none is opened.
C5_LinksExcluded ==
    \A c \in Callers :
        (Done(c) /\ ret[c].kind = "dict") =>
            \A n \in Names :
                Node(Join(arg[c], n)).kind = "link" =>
                    /\ n \notin DOMAIN ret[c].val
                    /\ Join(arg[c], n) \notin opened[c]

\* C5 amended: a symbolic link to a subdirectory and a dangling link are
\* excluded (no key, nothing opened); a symbolic link to a regular file is
\* followed: it is opened, and its name is a key whose value is the text of
\* the file it points at.
C5_LinksFollowed ==
    \A c \in Callers :
        (Done(c) /\ ret[c].kind = "dict") =>
            \A n \in Names :
                Node(Join(arg[c], n)).kind = "link" =>
                    IF Node(Join(arg[c], n)).to = "file"
                    THEN /\ n \in DOMAIN ret[c].val
                         /\ ret[c].val[n] = TextOf(TargetFile.data)
                         /\ Join(arg[c], n) \in opened[c]
                    ELSE /\ n \notin DOMAIN ret[c].val
                         /\ Join(arg[c], n) \notin opened[c]

C5_Witness ==
    \E c \in Callers :
        /\ Done(c)
        /\ arg[c] = <<>>
        /\ entries[1] = Link("file")
        /\ entries[2] = Link("dir")
        /\ DOMAIN ret[c].val = {1}
        /\ ret[c].val[1] = <<104, 10>>
        /\ opened[c] = {<<1>>}

\* C6: no subdirectory's name is a key of the mapping; only immediate
\* entries of folder_path are ever opened, none of them a directory, so no
\* file inside a subdirectory is opened or contributes a key or a value.
C6_NonRecursive ==
    \A c \in Callers :
        /\ \A p \in opened[c] :
             /\ Len(p) = Len(arg[c]) + 1
             /\ Stat(p).kind # "dir"
        /\ (Done(c) /\ ret[c].kind = "dict") =>
             /\ DOMAIN ret[c].val \subseteq Children(arg[c])
             /\ \A n \in Names :
                  Stat(Join(arg[c], n)).kind = "dir" => n \notin DOMAIN ret[c].val

C6_Witness ==
    \E c \in Callers :
        /\ Done(c)
        /\ arg[c] = <<>>
        /\ entries[1] = Dir
        /\ entries[2] = File(<<65>>, "ok")
        /\ ret[c].kind = "dict"
        /\ DOMAIN ret[c].val = {2}
        /\ opened[c] = {<<2>>}

\* C7: no step of _run changes the directory or any entry of it.
C7_ReadOnly == [][(\E c \in Callers : Run(c)) => UNCHANGED fsVars]_vars

\* A call that hit a per-file failure has returned and the directory is as
\* it was at the start.
C7_Witness ==
    \E c \in Callers :
        /\ Done(c)
        /\ envLeft = MaxEnv
        /\ ret[c].kind = "dict"
        /\ \E n \in DOMAIN failed[c] : failed[c][n].type = "PermissionError"

\* C8: a call that follows another on the same path, the directory unchanged,
\* returns what the first returned, and it starts from an empty mapping.
C8_Idempotent ==
    \A c \in Callers :
        /\ (Done(c) /\ last[c].kind # "none") => ret[c] = last[c]
        /\ pc[c] = "listdir" => file_contents[c] = <<>>

C8_Witness ==
    \E c \in Callers :
        /\ Done(c)
        /\ last[c].kind = "dict"
        /\ ret[c] = last[c]
        /\ \E n, m \in DOMAIN ret[c].val :
             /\ n \in DOMAIN failed[c]
             /\ m \notin DOMAIN failed[c]

\* What a call on path p returns when it runs alone on the directory as it is.
Alone(p) ==
    IF Stat(p).kind # "dir" THEN RetStr(NotDirMsg)
    ELSE IF ListDirError(p) # NoExc THEN Raised(ListDirError(p))
    ELSE RetDict([n \in {m \in Children(p) : Stat(Join(p, m)).kind = "file"} |->
            LET q == Join(p, n) IN
            IF OpenError(q) # NoExc THEN ErrPrefix \o OpenError(q).msg
            ELSE IF Stat(q).mode = "ioerr" THEN ErrPrefix \o <<5>>
            ELSE IF ~Utf8Decode(Stat(q).data).ok
            THEN ErrPrefix \o Utf8Decode(Stat(q).data).exc.msg
            ELSE TextOf(Stat(q).data)])

\* C9: whatever the interleaving of concurrent callers, each call returns
\* what it would return alone, and what it has built so far holds only keys
\* of its own directory.
C9_Isolation ==
    \A c \in Callers :
        /\ Done(c) => ret[c] = Alone(arg[c])
        /\ pc[c] \in {"loop", "open", "read", "exit", "except"} =>
             DOMAIN file_contents[c] \subseteq Children(arg[c])

\* Two callers on different directories have both returned, with different
\* mappings.
C9_Witness ==
    /\ Done(1)
    /\ Done(2)
    /\ arg[1] = <<>>
    /\ arg[2] = <<1>>
    /\ ret[1].kind = "dict"
    /\ ret[2].kind = "dict"
    /\ DOMAIN ret[1].val = {2}
    /\ DOMAIN ret[2].val = {1}

\* C10: a call has at most one file open at any time, none while it is
\* between two entries or handling a failure, and none when it has returned.
C10_OneHandle ==
    \A c \in Callers :
        /\ Cardinality(handles[c]) <= 1
        /\ pc[c] \in {"idle", "check", "listdir", "loop", "open", "except"} =>
             handles[c] = {}

\* A call that read one file and failed to decode another has returned.
C10_Witness ==
    \E c \in Callers :
        /\ Done(c)
        /\ Cardinality(opened[c]) = 2
        /\ handles[c] = {}
        /\ \E n \in DOMAIN failed[c] : failed[c][n].type = "UnicodeDecodeError"
        /\ \E n \in DOMAIN ret[c].val : n \notin DOMAIN failed[c]

====
